---- MODULE Spec2Model ----
(***************************************************************************)
(* The Bitmap class of yazmeyaa/bitmap-index, a growable bit set backed by *)
(* a Uint8Array.  The repository holds two copies of the class:            *)
(*   src/unnamed/part_001  (documented, with toString/fromString), and     *)
(*   src/src/bitmap.ts     (next to the tests).                            *)
(* Methods whose text differs between the two files are modelled twice:    *)
(* the part_001 method keeps the source name, the bitmap.ts method has the *)
(* suffix _ts.  The variable impl says which file is loaded.               *)
(*                                                                         *)
(* Bitmap objects hold a reference (bits) to a Uint8Array; the arrays live *)
(* in mem, so that sharing of a backing store between two objects is a     *)
(* state the model can express.                                            *)
(***************************************************************************)
EXTENDS Integers, Sequences, FiniteSets, TLC

VARIABLES impl, bits, mem, last, out, gen

vars == <<impl, bits, mem, last, out, gen>>

(***************************************************************************)
(* Bounds of the model.                                                    *)
(***************************************************************************)
\* The highest bit index given to set, remove and grow.
MaxIndex == 15

\* Bit positions inside a word that the inputs address: lowest and highest.
BitPositions == {0, 7}

\* Bit indices passed to set, remove, grow.
Indices == {x \in 0..MaxIndex : x % 8 \in BitPositions}

\* Arguments of the constructor.
InitialBits == 0..(MaxIndex + 1)

\* The capacity no store of the model exceeds.
MaxCapacity == 8 * ((MaxIndex \div 8) + 1)

\* The two copies of the class.
Impls == {"part_001", "bitmap.ts"}

\* Variables holding Bitmap objects: two operands and a result.
Objects == {"A", "B", "R"}

\* Addresses of Uint8Arrays: one per object and one under construction.
ArrayIds == 1..4

\* bits of a variable that holds no Bitmap.
null == 0

\* What reading a Uint8Array outside its bounds yields.
undefined == -1

(***************************************************************************)
(* JavaScript arithmetic on the values the class computes with.            *)
(***************************************************************************)
Max(a, b) == IF a >= b THEN a ELSE b

Min(a, b) == IF a <= b THEN a ELSE b

\* Bit j of the two's complement representation of v (0 <= j <= 30).
Bit(v, j) == (v \div (2 ^ j)) % 2

Pack8(f(_)) ==
  f(0) + 2 * f(1) + 4 * f(2) + 8 * f(3) + 16 * f(4) + 32 * f(5) + 64 * f(6) + 128 * f(7)

\* An operand read from a typed array: undefined converts to 0 (ToInt32).
ToInt32(v) == IF v = undefined THEN 0 ELSE v

\* The conversion of a value stored into a Uint8Array: modulo 2^8.
ToUint8(v) == v % 256

\* The bitwise operators on two bytes, tabulated bit by bit.
Bytes == 0..255

AndTable == [a \in Bytes |-> [b \in Bytes |-> Pack8(LAMBDA j : Bit(a, j) * Bit(b, j))]]

OrTable == [a \in Bytes |-> [b \in Bytes |-> Pack8(LAMBDA j : Max(Bit(a, j), Bit(b, j)))]]

XorTable == [a \in Bytes |-> [b \in Bytes |-> Pack8(LAMBDA j : (Bit(a, j) + Bit(b, j)) % 2)]]

\* a & b, where one operand is a byte (so bits 8..31 of the result are 0).
BitAnd(a, b) == AndTable[a % 256][b % 256]

\* a | b, where a is a byte and b any 32-bit integer.
BitOr(a, b) == (b - (b % 256)) + OrTable[a][b % 256]

\* a ^ b, both bytes.
BitXor(a, b) == XorTable[a][b]

\* ~b on a 32-bit integer.
BitNot(b) == (-b) - 1

\* a ?? d
Nullish(a, d) == IF a = undefined THEN d ELSE a

\* !v for v a number or undefined.
Falsy(v) == v = undefined \/ v = 0

(***************************************************************************)
(* Module-level helpers of bitmap.ts.                                      *)
(***************************************************************************)
\* Math.ceil(x / 8)
computeBitsArrayLength(x) == (x + 7) \div 8

\* Math.floor(x / 8)
getBitPositionIndex(x) == x \div 8

\* x % 8, the remainder having the sign of x.
getBitPosition(x) == IF x >= 0 THEN x % 8 ELSE -((-x) % 8)

\* 1 << bitIdx: the shift count is taken modulo 32.
getMask(bitIdx) ==
  LET s == bitIdx % 32 IN IF s = 31 THEN (-2147483647) - 1 ELSE 2 ^ s

(***************************************************************************)
(* Uint8Array.                                                             *)
(***************************************************************************)
\* new Uint8Array(n): n zero bytes.
Uint8Array(n) == [i \in 1..n |-> 0]

\* arr[i]
At(arr, i) == IF i \in 0..(Len(arr) - 1) THEN arr[i + 1] ELSE undefined

\* arr[i] = v: a store outside the bounds is ignored.
Put(arr, i, v) ==
  IF i \in 0..(Len(arr) - 1) THEN [arr EXCEPT ![i + 1] = ToUint8(v)] ELSE arr

\* dst.set(src): copies src to the start of dst (Len(src) <= Len(dst)).
TypedArraySet(dst, src) ==
  [i \in 1..Len(dst) |-> IF i <= Len(src) THEN src[i] ELSE dst[i]]

(***************************************************************************)
(* The heap: h.bits[o] is the array object o refers to, h.mem the arrays.  *)
(***************************************************************************)
H == [bits |-> bits, mem |-> mem]

\* this.bits
Bits(h, this) == h.mem[h.bits[this]]

\* The address a new array gets: the lowest one no object refers to.
FreeId(h) ==
  LET free == {a \in ArrayIds : \A o \in Objects : h.bits[o] # a}
  IN CHOOSE a \in free : \A b \in free : a <= b

\* The variable o no longer holds an object.
Drop(h, o) == [h EXCEPT !.bits[o] = null]

\* Addresses renamed in the order A, B, R and unreferenced arrays collected.
Normalise(h) ==
  LET idA == 1
      idB == IF h.bits["B"] = null THEN null
             ELSE IF h.bits["B"] = h.bits["A"] THEN idA
             ELSE 2
      idR == IF h.bits["R"] = null THEN null
             ELSE IF h.bits["R"] = h.bits["A"] THEN idA
             ELSE IF h.bits["R"] = h.bits["B"] THEN idB
             ELSE 3
      nb == [o \in Objects |-> IF o = "A" THEN idA ELSE IF o = "B" THEN idB ELSE idR]
  IN [bits |-> nb,
      mem |-> [a \in ArrayIds |->
                 IF \E o \in Objects : nb[o] = a
                 THEN Bits(h, CHOOSE o \in Objects : nb[o] = a)
                 ELSE Uint8Array(0)]]

(***************************************************************************)
(* class Bitmap.  A method takes the heap h and the variable (this) that   *)
(* holds the receiver, and yields the heap after the call or the returned  *)
(* value.  A method that returns a new Bitmap stores it in the variable r. *)
(***************************************************************************)
\* The default of the constructor's parameter.
DefaultBits == 32

\* r = new Bitmap(x); x is undefined where the caller gives no argument.
constructor(h, r, x) ==
  LET id == FreeId(h)
      n == IF x = undefined THEN DefaultBits ELSE x
  IN [bits |-> [h.bits EXCEPT ![r] = id],
      mem |-> [h.mem EXCEPT ![id] = Uint8Array(computeBitsArrayLength(n))]]

\* The number of bit indices the store of this can hold: bits.length * 8.
Capacity(h, this) == Len(Bits(h, this)) * 8

\* grow of part_001: room for index x, i.e. for x + 1 bits.
grow(h, this, x) ==
  LET arrLength == Max(1, computeBitsArrayLength(x + 1))
      prev == Bits(h, this)
      id == FreeId(h)
  IN IF arrLength <= Len(prev) THEN h
     ELSE [bits |-> [h.bits EXCEPT ![this] = id],
           mem |-> [h.mem EXCEPT ![id] = TypedArraySet(Uint8Array(arrLength), prev)]]

\* grow of bitmap.ts: room for x bits.
grow_ts(h, this, x) ==
  LET arrLength == Max(1, computeBitsArrayLength(x))
      prev == Bits(h, this)
      id == FreeId(h)
  IN IF arrLength <= Len(prev) THEN h
     ELSE [bits |-> [h.bits EXCEPT ![this] = id],
           mem |-> [h.mem EXCEPT ![id] = TypedArraySet(Uint8Array(arrLength), prev)]]

\* this.grow(x) in the file that is loaded.
this_grow(h, this, x) ==
  IF impl = "bitmap.ts" THEN grow_ts(h, this, x) ELSE grow(h, this, x)

\* set, the same text in both files.
set(h, this, x) ==
  LET idx == getBitPositionIndex(x)
      h1 == IF idx >= Len(Bits(h, this)) THEN this_grow(h, this, x) ELSE h
  IN [h1 EXCEPT !.mem[h1.bits[this]] =
        Put(@, idx, BitOr(ToInt32(At(@, idx)), getMask(getBitPosition(x))))]

\* remove of part_001.
remove(h, this, x) ==
  LET idx == getBitPositionIndex(x)
      mask == getMask(getBitPosition(x))
  IN IF idx >= Len(Bits(h, this)) THEN h
     ELSE [h EXCEPT !.mem[h.bits[this]] =
             Put(@, idx, BitAnd(ToInt32(At(@, idx)), BitNot(mask)))]

\* remove of bitmap.ts.
remove_ts(h, this, x) ==
  LET idx == getBitPositionIndex(x)
      mask == getMask(getBitPosition(x))
  IN IF Falsy(At(Bits(h, this), idx)) THEN h
     ELSE [h EXCEPT !.mem[h.bits[this]] =
             Put(@, idx, BitAnd(ToInt32(At(@, idx)), BitNot(mask)))]

\* this.remove(x) in the file that is loaded.
this_remove(h, this, x) ==
  IF impl = "bitmap.ts" THEN remove_ts(h, this, x) ELSE remove(h, this, x)

\* contains of part_001.
contains(h, this, x) ==
  LET idx == getBitPositionIndex(x)
      mask == getMask(getBitPosition(x))
  IN IF idx >= Len(Bits(h, this)) THEN FALSE
     ELSE BitAnd(ToInt32(At(Bits(h, this), idx)), mask) = mask

\* contains of bitmap.ts.
contains_ts(h, this, x) ==
  LET idx == getBitPositionIndex(x)
      pos == getBitPosition(x)
      mask == getMask(pos)
  IN IF Falsy(At(Bits(h, this), idx)) THEN FALSE
     ELSE BitAnd(ToInt32(At(Bits(h, this), idx)), mask) = mask

\* this.contains(x) in the file that is loaded.
this_contains(h, this, x) ==
  IF impl = "bitmap.ts" THEN contains_ts(h, this, x) ELSE contains(h, this, x)

\* clear with the bug of replacing the store by an empty one.
clear_emptyStore(h, this) ==
  [h EXCEPT !.mem[h.bits[this]] = Uint8Array(0)]

\* clear, the same text in both files.
clear(h, this) ==
  [h EXCEPT !.mem[h.bits[this]] = [i \in 1..Len(@) |-> 0]]

\* clone with the bug of handing out the store of this instead of a copy.
clone_sharedStore(h, this, r) == [h EXCEPT !.bits[r] = h.bits[this]]

\* r = this.clone(), the same text in both files.
clone(h, this, r) ==
  LET h1 == constructor(h, r, Len(Bits(h, this)) * 8)
  IN [h1 EXCEPT !.mem[h1.bits[r]] = TypedArraySet(@, Bits(h, this))]

\* r = this.and(bitmap) of part_001: words beyond the other store are zeroed.
and(h, this, bitmap, r) ==
  LET otherBits == h.bits[bitmap]
      h1 == clone(h, this, r)
      minlen == Min(Len(Bits(h1, this)), Len(h1.mem[otherBits]))
  IN [h1 EXCEPT !.mem[h1.bits[r]] =
        [i \in 1..Len(@) |->
           IF i <= minlen
           THEN ToUint8(BitAnd(@[i], ToInt32(At(h1.mem[otherBits], i - 1))))
           ELSE 0]]

\* r = this.and(bitmap) of bitmap.ts: only the common words are combined.
and_ts(h, this, bitmap, r) ==
  LET otherBits == h.bits[bitmap]
      h1 == clone(h, this, r)
      minlen == Min(Len(Bits(h1, this)), Len(h1.mem[otherBits]))
  IN [h1 EXCEPT !.mem[h1.bits[r]] =
        [i \in 1..Len(@) |->
           IF i <= minlen
           THEN ToUint8(BitAnd(@[i], ToInt32(At(h1.mem[otherBits], i - 1))))
           ELSE @[i]]]

\* andNot with the bug of zeroing the words beyond the other store, as and
\* does.
andNot_tailZeroed(h, this, bitmap, r) ==
  LET otherBits == h.bits[bitmap]
      h1 == clone(h, this, r)
      minlen == Min(Len(Bits(h1, this)), Len(h1.mem[otherBits]))
  IN [h1 EXCEPT !.mem[h1.bits[r]] =
        [i \in 1..Len(@) |->
           IF i <= minlen
           THEN ToUint8(BitAnd(@[i], BitNot(ToInt32(At(h1.mem[otherBits], i - 1)))))
           ELSE 0]]

\* r = this.andNot(bitmap), the same text in both files.
andNot(h, this, bitmap, r) ==
  LET otherBits == h.bits[bitmap]
      h1 == clone(h, this, r)
      minlen == Min(Len(Bits(h1, this)), Len(h1.mem[otherBits]))
  IN [h1 EXCEPT !.mem[h1.bits[r]] =
        [i \in 1..Len(@) |->
           IF i <= minlen
           THEN ToUint8(BitAnd(@[i], BitNot(ToInt32(At(h1.mem[otherBits], i - 1)))))
           ELSE @[i]]]

\* The clone in r extended to the length of the other store (or and xor
\* of part_001): result.bits = extended.
extend(h, r, otherBits) ==
  IF Len(h.mem[otherBits]) > Len(Bits(h, r))
  THEN LET extended == FreeId(h)
       IN [bits |-> [h.bits EXCEPT ![r] = extended],
           mem |-> [h.mem EXCEPT ![extended] =
                      TypedArraySet(Uint8Array(Len(h.mem[otherBits])), Bits(h, r))]]
  ELSE h

\* r = this.or(bitmap) of part_001.
or(h, this, bitmap, r) ==
  LET otherBits == h.bits[bitmap]
      h1 == clone(h, this, r)
      h2 == extend(h1, r, otherBits)
      maxlen == Max(Len(Bits(h2, r)), Len(h2.mem[otherBits]))
  IN [h2 EXCEPT !.mem[h2.bits[r]] =
        [i \in 1..Len(@) |->
           IF i <= maxlen
           THEN ToUint8(BitOr(Nullish(@[i], 0),
                              Nullish(At(h2.mem[otherBits], i - 1), 0)))
           ELSE @[i]]]

\* r = this.or(bitmap) of bitmap.ts.
or_ts(h, this, bitmap, r) ==
  LET otherBits == h.bits[bitmap]
      h1 == clone(h, this, r)
      minlen == Min(Len(Bits(h1, this)), Len(h1.mem[otherBits]))
  IN [h1 EXCEPT !.mem[h1.bits[r]] =
        [i \in 1..Len(@) |->
           IF i <= minlen
           THEN ToUint8(BitOr(@[i], ToInt32(At(h1.mem[otherBits], i - 1))))
           ELSE @[i]]]

\* r = this.xor(bitmap) of part_001.
xor(h, this, bitmap, r) ==
  LET otherBits == h.bits[bitmap]
      h1 == clone(h, this, r)
      h2 == extend(h1, r, otherBits)
      maxlen == Max(Len(Bits(h2, r)), Len(h2.mem[otherBits]))
  IN [h2 EXCEPT !.mem[h2.bits[r]] =
        [i \in 1..Len(@) |->
           IF i <= maxlen
           THEN ToUint8(BitXor(Nullish(@[i], 0),
                               Nullish(At(h2.mem[otherBits], i - 1), 0)))
           ELSE @[i]]]

\* r = this.xor(bitmap) of bitmap.ts.
xor_ts(h, this, bitmap, r) ==
  LET otherBits == h.bits[bitmap]
      h1 == clone(h, this, r)
      minlen == Min(Len(Bits(h1, this)), Len(h1.mem[otherBits]))
  IN [h1 EXCEPT !.mem[h1.bits[r]] =
        [i \in 1..Len(@) |->
           IF i <= minlen
           THEN ToUint8(BitXor(@[i], ToInt32(At(h1.mem[otherBits], i - 1))))
           ELSE @[i]]]

\* this.and(bitmap), this.or(bitmap), this.xor(bitmap) in the file loaded.
this_and(h, this, bitmap, r) ==
  IF impl = "bitmap.ts" THEN and_ts(h, this, bitmap, r) ELSE and(h, this, bitmap, r)

this_or(h, this, bitmap, r) ==
  IF impl = "bitmap.ts" THEN or_ts(h, this, bitmap, r) ELSE or(h, this, bitmap, r)

this_xor(h, this, bitmap, r) ==
  IF impl = "bitmap.ts" THEN xor_ts(h, this, bitmap, r) ELSE xor(h, this, bitmap, r)

\* The inner loop of count with the bug of counting the word, not its bits.
countByte_words(tmp, n) == IF tmp = 0 THEN n ELSE n + 1

\* The inner loop of count: tmp &= tmp - 1 until tmp is 0.
RECURSIVE countByte(_, _)
countByte(tmp, n) == IF tmp = 0 THEN n ELSE countByte(BitAnd(tmp, tmp - 1), n + 1)

RECURSIVE countFrom(_, _, _)
countFrom(arr, i, n) ==
  IF i >= Len(arr) THEN n ELSE countFrom(arr, i + 1, countByte(At(arr, i), n))

\* this.count(), the same text in both files.
count(h, this) == countFrom(Bits(h, this), 0, 0)

(***************************************************************************)
(* min, max, minZero, maxZero: the same text in both files.                *)
(***************************************************************************)
\* The inner loop of min and minZero: the lowest position from j on at
\* which the word has the bit value want, 8 if there is none.
RECURSIVE firstPosition(_, _, _)
firstPosition(byte, want, j) ==
  IF j >= 8 THEN 8
  ELSE IF (IF BitAnd(byte, getMask(j)) # 0 THEN 1 ELSE 0) = want THEN j
  ELSE firstPosition(byte, want, j + 1)

\* The outer loop of min from word i.
RECURSIVE minFrom(_, _)
minFrom(arr, i) ==
  IF i >= Len(arr) THEN -1
  ELSE IF At(arr, i) = 0 \/ firstPosition(At(arr, i), 1, 0) = 8 THEN minFrom(arr, i + 1)
  ELSE i * 8 + firstPosition(At(arr, i), 1, 0)

\* this.min()
min(h, this) == minFrom(Bits(h, this), 0)

\* Math.floor(Math.log2(byte)) for a byte > 0.
RECURSIVE floorLog2(_)
floorLog2(byte) == IF byte < 2 THEN 0 ELSE 1 + floorLog2(byte \div 2)

\* The loop of max from word i down.
RECURSIVE maxFrom(_, _)
maxFrom(arr, i) ==
  IF i < 0 THEN -1
  ELSE IF At(arr, i) = 0 THEN maxFrom(arr, i - 1)
  ELSE i * 8 + floorLog2(At(arr, i))

\* this.max()
max(h, this) == maxFrom(Bits(h, this), Len(Bits(h, this)) - 1)

\* minZero with the bug of returning -1, as min does, when no bit is 0.
RECURSIVE minZeroFrom(_, _)
minZero_minusOne(h, this) ==
  LET r == minZeroFrom(Bits(h, this), 0)
  IN IF r = Len(Bits(h, this)) * 8 THEN -1 ELSE r

\* The outer loop of minZero from word i.
minZeroFrom(arr, i) ==
  IF i >= Len(arr) THEN Len(arr) * 8
  ELSE IF At(arr, i) = 255 \/ firstPosition(At(arr, i), 0, 0) = 8 THEN minZeroFrom(arr, i + 1)
  ELSE i * 8 + firstPosition(At(arr, i), 0, 0)

\* this.minZero()
minZero(h, this) == minZeroFrom(Bits(h, this), 0)

\* The inner loop of maxZero: the highest position from j down at which the
\* word has a 0 bit, -1 if there is none.
RECURSIVE lastZeroPosition(_, _)
lastZeroPosition(byte, j) ==
  IF j < 0 THEN -1
  ELSE IF BitAnd(byte, getMask(j)) = 0 THEN j
  ELSE lastZeroPosition(byte, j - 1)

\* The outer loop of maxZero from word i down.
RECURSIVE maxZeroFrom(_, _)
maxZeroFrom(arr, i) ==
  IF i < 0 THEN -1
  ELSE IF At(arr, i) = 255 \/ lastZeroPosition(At(arr, i), 7) = -1 THEN maxZeroFrom(arr, i - 1)
  ELSE i * 8 + lastZeroPosition(At(arr, i), 7)

\* this.maxZero()
maxZero(h, this) == maxZeroFrom(Bits(h, this), Len(Bits(h, this)) - 1)

(***************************************************************************)
(* toString and fromString, defined by part_001 alone (bitmap.ts has       *)
(* neither).  A string is the sequence of its characters.                  *)
(***************************************************************************)
\* The characters the regular expression \s matches, of those used here.
Whitespace == {" ", "\t", "\n"}

\* padStart with the bug of not padding at all.
padStart_none(str, n, c) == str

RECURSIVE toString2(_)
\* x.toString(2) for a byte x: its binary digits, no leading zeros.
toString2(x) ==
  IF x < 2 THEN <<IF x = 1 THEN "1" ELSE "0">>
  ELSE Append(toString2(x \div 2), IF x % 2 = 1 THEN "1" ELSE "0")

\* str.padStart(n, c)
RECURSIVE padStart(_, _, _)
padStart(str, n, c) == IF Len(str) >= n THEN str ELSE padStart(<<c>> \o str, n, c)

\* strs.join(sep), from element k on.
RECURSIVE joinFrom(_, _, _)
joinFrom(strs, sep, k) ==
  IF k > Len(strs) THEN << >>
  ELSE IF k = Len(strs) THEN strs[k]
  ELSE strs[k] \o sep \o joinFrom(strs, sep, k + 1)

join(strs, sep) == joinFrom(strs, sep, 1)

\* this.toString()
toString(h, this) ==
  join([i \in 1..Len(Bits(h, this)) |-> padStart(toString2(Bits(h, this)[i]), 8, "0")],
       <<" ">>)

\* s.replace(/\s+/g, '')
replaceWhitespace(s) == SelectSeq(s, LAMBDA c : c \notin Whitespace)

\* str.slice(from, to)
slice(str, from, to) == SubSeq(str, from + 1, Min(to, Len(str)))

\* The digits parseInt reads from position k of str: it stops at the first
\* character that is no binary digit.  acc is <<n>> once it has read the
\* digits of n, and << >> before the first digit.
RECURSIVE parseDigits(_, _, _)
parseDigits(str, k, acc) ==
  IF k > Len(str) \/ str[k] \notin {"0", "1"} THEN acc
  ELSE parseDigits(str, k + 1,
                   <<2 * (IF acc = << >> THEN 0 ELSE acc[1]) + (IF str[k] = "1" THEN 1 ELSE 0)>>)

\* parseInt with the bug of taking the first character as the lowest bit.
RECURSIVE parseDigitsLsbFirst(_, _, _)
parseDigitsLsbFirst(str, k, acc) ==
  IF k > Len(str) \/ str[k] \notin {"0", "1"} THEN acc
  ELSE parseDigitsLsbFirst(str, k + 1,
                   <<(IF acc = << >> THEN 0 ELSE acc[1]) + (IF str[k] = "1" THEN 2 ^ (k - 1) ELSE 0)>>)

parseInt_lsbFirst(str) == parseDigitsLsbFirst(str, 1, << >>)

\* parseInt(str, 2) for str without whitespace: <<n>> for the number n,
\* << >> for NaN.  A sign may precede the digits.
parseInt(str) ==
  IF str # << >> /\ str[1] \in {"+", "-"}
  THEN LET p == parseDigits(str, 2, << >>)
       IN IF p = << >> THEN p ELSE IF str[1] = "-" THEN <<-p[1]>> ELSE p
  ELSE parseDigits(str, 1, << >>)

\* The value a Uint8Array element takes when p is stored: NaN becomes 0.
StoredNumber(p) == IF p = << >> THEN 0 ELSE ToUint8(p[1])

\* What a call threw: nothing, or an Error.
Returned == << >>

Thrown(e) == <<"throw", e>>

\* r = Bitmap.fromString(s): the heap after the call and what it threw.
fromString(h, r, s) ==
  LET cleaned == replaceWhitespace(s)
      bytes == [i \in 1..(Len(cleaned) \div 8) |->
                  StoredNumber(parseInt(slice(cleaned, (i - 1) * 8, (i - 1) * 8 + 8)))]
      h1 == constructor(h, r, Len(bytes) * 8)
      id == FreeId(h1)
  IN IF Len(cleaned) % 8 # 0
     THEN [h |-> h, thrown |-> Thrown("Error")]
     ELSE [h |-> [bits |-> [h1.bits EXCEPT ![r] = id],
                  mem |-> [h1.mem EXCEPT ![id] = bytes]],
           thrown |-> Returned]

(***************************************************************************)
(* Traversal.  A callback is a function from bit indices to the value it   *)
(* returns there: true, false or (range only) undefined.                   *)
(***************************************************************************)
\* The boolean values a callback returns, as numbers beside undefined.
true == 1

false == 0

\* Every index a store of the model can hold.
AllIndices == 0..(MaxCapacity - 1)

\* The inner loop of range over the word byte, number i, from position j:
\* s.calls are the indices fn was called on, s.go is needContinueIterating.
RECURSIVE rangeWord(_, _, _, _, _)
rangeWord(byte, fn, i, j, s) ==
  IF j >= 8 THEN s
  ELSE IF BitAnd(byte \div (2 ^ j), 1) = 0 THEN rangeWord(byte, fn, i, j + 1, s)
  ELSE LET needContinueIterating == Nullish(fn[i * 8 + j], true)
           s1 == [calls |-> Append(s.calls, i * 8 + j), go |-> needContinueIterating]
       IN IF Falsy(needContinueIterating) THEN s1
          ELSE rangeWord(byte, fn, i, j + 1, s1)

\* The outer loop of range with the bug of not leaving it when fn returned
\* false: only the inner loop is left.
RECURSIVE rangeFrom_noOuterBreak(_, _, _, _, _)
rangeFrom_noOuterBreak(h, this, fn, i, s) ==
  IF i >= Len(Bits(h, this)) THEN s
  ELSE rangeFrom_noOuterBreak(h, this, fn, i + 1,
                              rangeWord(At(Bits(h, this), i), fn, i, 0, s))

\* The outer loop of range from word i.
RECURSIVE rangeFrom(_, _, _, _, _)
rangeFrom(h, this, fn, i, s) ==
  IF i >= Len(Bits(h, this)) THEN s
  ELSE LET s1 == rangeWord(At(Bits(h, this), i), fn, i, 0, s)
       IN IF Falsy(s1.go) THEN s1 ELSE rangeFrom(h, this, fn, i + 1, s1)

\* this.range(fn): the indices fn is called on, in the order of the calls.
range(h, this, fn) ==
  rangeFrom(h, this, fn, 0, [calls |-> << >>, go |-> true]).calls

(***************************************************************************)
(* The generator [Symbol.iterator], the same text in both files.  It runs  *)
(* from one yield to the next when its caller asks for the next value, and *)
(* the caller's code runs in between.  A generator object g is             *)
(*   g.at       "start" (created, no code run), "suspended" (at the yield) *)
(*              or "done";                                                 *)
(*   g.this     the bitmap it iterates;                                    *)
(*   g.i, g.j   the loop variables, g.byte the word read at the top of the *)
(*              outer loop;                                                *)
(*   g.yielded  the values it has yielded;                                 *)
(*   g.pure     whether no call has changed the bitmap since the first     *)
(*              value was asked for (kept for stating the properties).     *)
(***************************************************************************)
\* No generator.
NoGen ==
  [at |-> "none", this |-> "A", i |-> 0, j |-> 0, byte |-> 0,
   yielded |-> << >>, pure |-> TRUE]

\* this[Symbol.iterator](): the generator object; no code of the body runs.
generator(this) == [NoGen EXCEPT !.at = "start", !.this = this]

\* The inner loop with the bug of looking for the highest bit first.
nextPosition_highest(byte, j) ==
  IF j >= 8 THEN 8
  ELSE IF \E k \in j..7 : BitAnd(byte, getMask(k)) # 0
       THEN CHOOSE k \in j..7 :
              /\ BitAnd(byte, getMask(k)) # 0
              /\ \A m \in j..7 : BitAnd(byte, getMask(m)) # 0 => m <= k
       ELSE 8

\* The inner loop from position j: the position of the next yield in the
\* word byte, 8 if the loop ends without one.
RECURSIVE nextPosition(_, _)
nextPosition(byte, j) ==
  IF j >= 8 THEN 8
  ELSE IF BitAnd(byte, getMask(j)) # 0 THEN j
  ELSE nextPosition(byte, j + 1)

\* The outer loop from its test i < this.bits.length, for the value of i in
\* g: the generator at its next yield, or done.
RECURSIVE outerLoop(_, _)
RECURSIVE innerLoop(_, _)
outerLoop(h, g) ==
  IF g.i >= Len(Bits(h, g.this)) THEN [g EXCEPT !.at = "done"]
  ELSE LET byte == At(Bits(h, g.this), g.i)
       IN IF byte = 0 THEN outerLoop(h, [g EXCEPT !.i = g.i + 1, !.byte = byte])
          ELSE innerLoop(h, [g EXCEPT !.j = 0, !.byte = byte])

\* The inner loop from position g.j over the word g.byte, then the outer
\* loop on from the next word.
innerLoop(h, g) ==
  LET j == nextPosition(g.byte, g.j)
  IN IF j < 8
     THEN [g EXCEPT !.at = "suspended", !.j = j, !.yielded = Append(@, g.i * 8 + j)]
     ELSE outerLoop(h, [g EXCEPT !.i = g.i + 1])

\* g.next(): the generator runs to its next yield or to its end.
next(h, g) ==
  IF g.at = "start" THEN outerLoop(h, [g EXCEPT !.i = 0])
  ELSE IF g.at = "suspended" THEN innerLoop(h, [g EXCEPT !.j = g.j + 1])
  ELSE g

\* The generator consumed to its end with no other call in between.
RECURSIVE drain(_, _)
drain(h, g) == IF g.at = "done" THEN g.yielded ELSE drain(h, next(h, g))

\* [...this]: the values the generator yields when nothing stands between
\* its yields.
iterator(h, this) == drain(h, generator(this))

\* The bitmap this after this.set(x) for every x of S, in ascending order.
RECURSIVE Fill(_, _, _)
Fill(h, this, S) ==
  IF S = {} THEN h
  ELSE LET x == CHOOSE y \in S : \A z \in S : y <= z
       IN Fill(set(h, this, x), this, S \ {x})

\* The heap after a call of the callback of filter: a callback with a side
\* effect does this.set(sets) at every call, a pure one (sets undefined)
\* leaves the heap alone.
callback(h, this, sets) == IF sets = undefined THEN h ELSE set(h, this, sets)

\* The inner loop of filter with the bug of a missing negation: the bits
\* for which fn returns true are removed.
RECURSIVE filterWord_keepsRejected(_, _, _, _, _)
filterWord_keepsRejected(this, fn, i, j, s) ==
  IF j >= 8 THEN s
  ELSE LET bitIndex == i * 8 + j
       IN IF this_contains(s.h, this, bitIndex)
          THEN filterWord_keepsRejected(this, fn, i, j + 1,
                          [s EXCEPT
                             !.h = IF ~Falsy(fn[bitIndex])
                                   THEN this_remove(callback(s.h, this, s.sets), this, bitIndex)
                                   ELSE callback(s.h, this, s.sets),
                             !.calls = Append(s.calls, bitIndex)])
          ELSE filterWord_keepsRejected(this, fn, i, j + 1, s)

\* The inner loop of filter over word i from position j: s.h is the heap,
\* s.calls the indices fn was called on, s.sets the side effect of fn.
RECURSIVE filterWord(_, _, _, _, _)
filterWord(this, fn, i, j, s) ==
  IF j >= 8 THEN s
  ELSE LET bitIndex == i * 8 + j
       IN IF this_contains(s.h, this, bitIndex)
          THEN filterWord(this, fn, i, j + 1,
                          [s EXCEPT
                             !.h = IF Falsy(fn[bitIndex])
                                   THEN this_remove(callback(s.h, this, s.sets), this, bitIndex)
                                   ELSE callback(s.h, this, s.sets),
                             !.calls = Append(s.calls, bitIndex)])
          ELSE filterWord(this, fn, i, j + 1, s)

\* The outer loop of filter from word i; this.bits.length is read at
\* every word.
RECURSIVE filterFrom(_, _, _, _)
filterFrom(this, fn, i, s) ==
  IF i >= Len(Bits(s.h, this)) THEN s
  ELSE filterFrom(this, fn, i + 1, filterWord(this, fn, i, 0, s))

\* this.filter(fn), where fn returns fn[x] at x and has the side effect
\* sets: the heap after the call and the calls of fn.
filter(h, this, fn, sets) ==
  filterFrom(this, fn, 0, [h |-> h, calls |-> << >>, sets |-> sets])

(***************************************************************************)
(* Callbacks given to range and filter.                                    *)
(***************************************************************************)
\* What a range visitor returns where it does not return false.
VisitorModes == {"true", "undefined", "mixed"}

\* The visitor that returns false at index stop (never, if stop is no
\* index) and elsewhere true, nothing, or nothing at even indices and true
\* at odd ones.
Visitor(stop, mode) ==
  [x \in AllIndices |->
     IF x = stop THEN false
     ELSE IF mode = "true" THEN true
     ELSE IF mode = "undefined" THEN undefined
     ELSE IF x % 2 = 0 THEN undefined ELSE true]

Visitors == {Visitor(stop, mode) : stop \in Indices \cup {-1}, mode \in VisitorModes}

\* The predicate that returns true exactly on keep.
Predicate(keep) == [x \in AllIndices |-> IF x \in keep THEN true ELSE false]

Predicates == {Predicate(keep) : keep \in SUBSET Indices}

\* No callback.
NoFn == << >>

(***************************************************************************)
(* The state machine.  The variables A, B and R hold Bitmap objects: A and *)
(* B are constructed, R holds the Bitmap returned by clone, and, andNot,   *)
(* or, xor.  last is the call just made and out what its callback was      *)
(* called on or what it returned; gen is the generator the caller holds.   *)
(***************************************************************************)
Receivers == {"A", "B"}

Empty ==
  [bits |-> [o \in Objects |-> null], mem |-> [id \in ArrayIds |-> Uint8Array(0)]]

\* A = new Bitmap(a)
Init ==
  /\ impl \in Impls
  /\ \E a \in InitialBits :
       LET h == Normalise(constructor(Empty, "A", a))
       IN /\ bits = h.bits /\ mem = h.mem
          /\ last = [op |-> "new", this |-> "A", other |-> "A", x |-> a, fn |-> NoFn]
  /\ out = << >>
  /\ gen = NoGen

\* A = new Bitmap(a); B = new Bitmap(b)
InitTwo ==
  /\ impl \in Impls
  /\ \E a \in InitialBits, b \in InitialBits :
       LET h == Normalise(constructor(constructor(Empty, "A", a), "B", b))
       IN /\ bits = h.bits /\ mem = h.mem
          /\ last = [op |-> "new", this |-> "B", other |-> "B", x |-> b, fn |-> NoFn]
  /\ out = << >>
  /\ gen = NoGen

\* The heap a call starts from: with keep, R stays alive across the call;
\* without, the caller has let go of the Bitmap the previous call returned.
Start(keep) == IF keep THEN H ELSE Drop(H, "R")

\* The calls that change the bitmap they are made on.
Mutators == {"set", "setEach", "remove", "grow", "clear", "filter"}

\* The generator the caller holds, after a call op on this: a suspended
\* generator stays where it is, and notes a change of its bitmap; a
\* generator that is done is let go.
Held(op, this) ==
  IF gen.at = "done" THEN NoGen
  ELSE IF gen.at = "suspended" /\ gen.this = this /\ op \in Mutators
  THEN [gen EXCEPT !.pure = FALSE]
  ELSE gen

\* A call leaves the heap h.
Respond(h, op, this, other, x, fn, o) ==
  /\ LET n == Normalise(h) IN bits' = n.bits /\ mem' = n.mem
  /\ last' = [op |-> op, this |-> this, other |-> other, x |-> x, fn |-> fn]
  /\ out' = o
  /\ UNCHANGED impl

\* The call of a method is over: h is the heap it leaves.
Return(h, op, this, other, x, fn, o) ==
  /\ Respond(h, op, this, other, x, fn, o)
  /\ gen' = Held(op, this)

Set(keep, o, x) ==
  /\ bits[o] # null
  /\ Return(set(Start(keep), o, x), "set", o, o, x, NoFn, << >>)

Remove(keep, o, x) ==
  /\ bits[o] # null
  /\ Return(this_remove(Start(keep), o, x), "remove", o, o, x, NoFn, << >>)

Grow(keep, o, x) ==
  /\ bits[o] # null
  /\ Return(this_grow(Start(keep), o, x), "grow", o, o, x, NoFn, << >>)

Clear(keep, o) ==
  /\ bits[o] # null
  /\ Return(clear(Start(keep), o), "clear", o, o, 0, NoFn, << >>)

Filter(keep, o, fn) ==
  /\ bits[o] # null
  /\ LET s == filter(Start(keep), o, fn, undefined)
     IN Return(s.h, "filter", o, o, 0, fn, s.calls)

\* o.filter(x => { o.set(sets); return fn[x] }): the predicate sets a bit
\* of the bitmap that is being filtered.
FilterSetting(o, fn, sets) ==
  /\ bits[o] # null
  /\ LET s == filter(Drop(H, "R"), o, fn, sets)
     IN Return(s.h, "filter", o, o, sets, fn, s.calls)

Range(o, fn) ==
  /\ bits[o] # null
  /\ Return(Drop(H, "R"), "range", o, o, 0, fn, range(H, o, fn))

\* gen = o[Symbol.iterator](): the caller starts an iteration, for-of or
\* spread; a generator held before is let go.
Iterate(o) ==
  /\ bits[o] # null
  /\ Respond(Drop(H, "R"), "iterator", o, o, 0, NoFn, << >>)
  /\ gen' = generator(o)

\* gen.next(): the caller asks for the next value; out is what the
\* generator has yielded so far.
Resume ==
  /\ gen.at \in {"start", "suspended"}
  /\ LET g == next(H, gen)
     IN /\ Respond(Drop(H, "R"), "next", gen.this, gen.this, 0, NoFn, g.yielded)
        /\ gen' = g

Clone(o) ==
  /\ bits[o] # null
  /\ Return(clone(Drop(H, "R"), o, "R"), "clone", o, o, 0, NoFn, << >>)

And(a, b) ==
  /\ bits[a] # null /\ bits[b] # null
  /\ Return(this_and(Drop(H, "R"), a, b, "R"), "and", a, b, 0, NoFn, << >>)

AndNot(a, b) ==
  /\ bits[a] # null /\ bits[b] # null
  /\ Return(andNot(Drop(H, "R"), a, b, "R"), "andNot", a, b, 0, NoFn, << >>)

Or(a, b) ==
  /\ bits[a] # null /\ bits[b] # null
  /\ Return(this_or(Drop(H, "R"), a, b, "R"), "or", a, b, 0, NoFn, << >>)

Xor(a, b) ==
  /\ bits[a] # null /\ bits[b] # null
  /\ Return(this_xor(Drop(H, "R"), a, b, "R"), "xor", a, b, 0, NoFn, << >>)

\* Spec: the life of one bitmap, A.
Next ==
  \/ \E x \in Indices : Set(FALSE, "A", x)
  \/ \E x \in Indices : Remove(FALSE, "A", x)
  \/ \E x \in Indices : Grow(FALSE, "A", x)
  \/ Clear(FALSE, "A")

Spec == Init /\ [][Next]_vars

\* SpecAlgebra: A and B are filled by set and combined, A with B and A
\* with itself; R is the Bitmap the last call returned, if it returned one.
NextAlgebra ==
  \/ \E o \in Receivers, x \in Indices : Set(FALSE, o, x)
  \/ \E b \in Receivers : And("A", b)
  \/ \E b \in Receivers : AndNot("A", b)
  \/ \E b \in Receivers : Or("A", b)
  \/ \E b \in Receivers : Xor("A", b)

SpecAlgebra == InitTwo /\ [][NextAlgebra]_vars

\* SpecOwn: the returned Bitmap R stays alive, and A, B and R are mutated
\* side by side.  The indices are the first of the first and of the last
\* word.
OwnIndices == {0, 8 * (MaxIndex \div 8)}

\* The predicates of SpecOwn: one removes every index, one keeps index 0.
OwnPredicates == {Predicate({}), Predicate({0})}

NextOwn ==
  \/ \E o \in Objects, x \in OwnIndices : Set(TRUE, o, x)
  \/ \E o \in Objects, x \in OwnIndices : Remove(TRUE, o, x)
  \/ \E o \in Objects, x \in OwnIndices : Grow(TRUE, o, x)
  \/ \E o \in Objects : Clear(TRUE, o)
  \/ \E o \in Objects, fn \in OwnPredicates : Filter(TRUE, o, fn)
  \/ \E o \in Receivers : Clone(o)
  \/ \E a \in Receivers : \E b \in Receivers \ {a} : And(a, b)
  \/ \E a \in Receivers : \E b \in Receivers \ {a} : AndNot(a, b)
  \/ \E a \in Receivers : \E b \in Receivers \ {a} : Or(a, b)
  \/ \E a \in Receivers : \E b \in Receivers \ {a} : Xor(a, b)

SpecOwn == InitTwo /\ [][NextOwn]_vars

\* SpecTraverse: the bitmap A is filled and traversed.
NextTraverse ==
  \/ \E x \in Indices : Set(FALSE, "A", x)
  \/ \E x \in Indices : Remove(FALSE, "A", x)
  \/ \E fn \in Visitors : Range("A", fn)
  \/ \E fn \in Predicates : Filter(FALSE, "A", fn)

SpecTraverse == Init /\ [][NextTraverse]_vars

\* toString and fromString exist in part_001 alone.
Stringify(o) ==
  /\ impl = "part_001"
  /\ bits[o] # null
  /\ Return(H, "toString", o, o, 0, NoFn, toString(H, o))

\* R = Bitmap.fromString(s); the field fn of last holds the argument s.
FromString(s) ==
  /\ impl = "part_001"
  /\ LET res == fromString(Drop(H, "R"), "R", s)
     IN Return(res.h, "fromString", "R", "R", 0, s, res.thrown)

\* The bit positions set in one word of a filled bitmap: none, the even
\* ones, all.
WordPatterns == {{}, {0, 2, 4, 6}, 0..7}

Words == 0..(MaxIndex \div 8)

\* The index sets a bitmap is filled with.
Fillings ==
  {UNION {{8 * w + j : j \in f[w]} : w \in Words} \cap (0..MaxIndex) :
     f \in [Words -> WordPatterns]}

\* for (const x of S) o.set(x), the loop of a caller that fills a bitmap.
SetEach(keep, o, S) ==
  /\ bits[o] # null
  /\ Return(Fill(Start(keep), o, S), "setEach", o, o, 0, NoFn, << >>)

\* SpecString: the bitmap A is filled and changed, printed, and parsed back
\* from what it prints.
NextString ==
  \/ \E S \in Fillings : SetEach(FALSE, "A", S)
  \/ \E x \in Indices : Set(FALSE, "A", x)
  \/ \E x \in Indices : Remove(FALSE, "A", x)
  \/ \E o \in {"A", "R"} : Stringify(o)
  \/ FromString(toString(H, "A"))

SpecString == Init /\ [][NextString]_vars

\* The eight characters that spell the byte v, highest bit first.
Group(v) == [k \in 1..8 |-> IF Bit(v, 8 - k) = 1 THEN "1" ELSE "0"]

\* The pieces the arguments of fromString are made of: whole groups, half
\* groups, short ones, and groups with a character that is no binary digit.
Pieces ==
  {Group(v) : v \in {0, 1, 128, 85}}
    \cup {<< >>, <<"1">>, <<"0", "1", "0", "1">>, <<"1", "0", "0", "0">>}
    \cup {<<"0", "0", "0", "0", "0", "0", "1", "2">>,
          <<"-", "0", "0", "0", "0", "0", "0", "1">>,
          <<"2", "2", "2", "2", "2", "2", "2", "2">>}

Separators == {<< >>, <<" ">>, <<"\n", "\t">>}

Inputs == {p \o sep \o q \o sep : p \in Pieces, q \in Pieces, sep \in Separators}

\* SpecParse: strings are parsed, and the result printed.
NextParse ==
  \/ \E s \in Inputs : FromString(s)
  \/ Stringify("R")

SpecParse == Init /\ [][NextParse]_vars

\* R = new Bitmap(n), or new Bitmap() for n undefined.
New(n) ==
  Return(constructor(Drop(H, "R"), "R", n), "new", "R", "R", n, NoFn, << >>)

\* The queries: out holds the value returned.
Contains(o, x) ==
  /\ bits[o] # null
  /\ Return(Drop(H, "R"), "contains", o, o, x, NoFn, <<this_contains(H, o, x)>>)

Count(o) ==
  /\ bits[o] # null
  /\ Return(Drop(H, "R"), "count", o, o, 0, NoFn, <<count(H, o)>>)

MinOf(o) ==
  /\ bits[o] # null
  /\ Return(Drop(H, "R"), "min", o, o, 0, NoFn, <<min(H, o)>>)

MaxOf(o) ==
  /\ bits[o] # null
  /\ Return(Drop(H, "R"), "max", o, o, 0, NoFn, <<max(H, o)>>)

MinZero(o) ==
  /\ bits[o] # null
  /\ Return(Drop(H, "R"), "minZero", o, o, 0, NoFn, <<minZero(H, o)>>)

MaxZero(o) ==
  /\ bits[o] # null
  /\ Return(Drop(H, "R"), "maxZero", o, o, 0, NoFn, <<maxZero(H, o)>>)

\* SpecNegative: the bitmap A is called with valid and with negative
\* indices.
NegativeIndices == {-1, -8, -9}

NextNegative ==
  \/ \E x \in Indices \cup NegativeIndices : Set(FALSE, "A", x)
  \/ \E x \in Indices \cup NegativeIndices : Remove(FALSE, "A", x)
  \/ \E x \in Indices \cup NegativeIndices : Grow(FALSE, "A", x)
  \/ \E x \in Indices \cup NegativeIndices : Contains("A", x)

SpecNegative == Init /\ [][NextNegative]_vars

\* SpecLife: the life of one instance, A, with every call that changes it
\* and the queries; bitmaps are constructed beside it.
NextLife ==
  \/ \E n \in InitialBits \cup {undefined} : New(n)
  \/ \E x \in Indices : Set(FALSE, "A", x)
  \/ \E x \in Indices : Remove(FALSE, "A", x)
  \/ \E x \in Indices : Grow(FALSE, "A", x)
  \/ Clear(FALSE, "A")
  \/ \E fn \in OwnPredicates : Filter(FALSE, "A", fn)
  \/ \E x \in Indices : Contains("A", x)
  \/ Count("A")
  \/ MinOf("A")
  \/ MaxOf("A")
  \/ MinZero("A")
  \/ MaxZero("A")
  \/ \E fn \in {Visitor(-1, "true")} : Range("A", fn)

SpecLife == Init /\ [][NextLife]_vars

\* SpecBoundary: the bitmap A is filled, up to full words, and queried.
QueryIndices == Indices \cup {MaxCapacity}

NextBoundary ==
  \/ \E S \in Fillings : SetEach(FALSE, "A", S)
  \/ \E x \in Indices : Remove(FALSE, "A", x)
  \/ Clear(FALSE, "A")
  \/ \E x \in QueryIndices : Contains("A", x)
  \/ Count("A")
  \/ MinOf("A")
  \/ MaxOf("A")
  \/ MinZero("A")
  \/ MaxZero("A")

SpecBoundary == Init /\ [][NextBoundary]_vars

\* SpecReentrant: the bitmap A is filtered with predicates that set a bit
\* of A at every call: some keep every index, some none, some index 0.
SettingPredicates == {Predicate({}), Predicate({0}), Predicate(AllIndices)}

NextReentrant ==
  \/ \E x \in Indices : Set(FALSE, "A", x)
  \/ \E x \in Indices : Remove(FALSE, "A", x)
  \/ \E fn \in SettingPredicates, x \in Indices : FilterSetting("A", fn, x)

SpecReentrant == Init /\ [][NextReentrant]_vars

\* SpecIterate: the bitmap A is changed, visited by range, and iterated by
\* a generator whose caller may change A between two values.
NeverFalseVisitors == {Visitor(-1, mode) : mode \in VisitorModes}

NextIterate ==
  \/ \E x \in Indices : Set(FALSE, "A", x)
  \/ \E x \in Indices : Remove(FALSE, "A", x)
  \/ Clear(FALSE, "A")
  \/ \E fn \in NeverFalseVisitors : Range("A", fn)
  \/ Iterate("A")
  \/ Resume

SpecIterate == Init /\ [][NextIterate]_vars

(***************************************************************************)
(* What the properties are stated with.                                    *)
(***************************************************************************)
\* The indices asked about: every index of a store and one word beyond.
Universe == 0..(MaxCapacity + 7)

\* The indices x for which o.contains(x) is true.
Contained(h, o) == {x \in Universe : this_contains(h, o, x)}

\* The heap in which A and B are two Bitmaps whose stores hold a and b.
Pair(a, b) ==
  [bits |-> [o \in Objects |-> IF o = "A" THEN 1 ELSE IF o = "B" THEN 2 ELSE null],
   mem |-> [id \in ArrayIds |-> IF id = 1 THEN a ELSE IF id = 2 THEN b ELSE Uint8Array(0)]]

\* The store of this.op(other), for the heap h.
StoreOfAnd(h, this, other) == Bits(this_and(Drop(h, "R"), this, other, "R"), "R")

StoreOfOr(h, this, other) == Bits(this_or(Drop(h, "R"), this, other, "R"), "R")

StoreOfXor(h, this, other) == Bits(this_xor(Drop(h, "R"), this, other, "R"), "R")

(***************************************************************************)
(* C1  Growth invariant: right after set(x), contains(x) is true and the   *)
(* capacity is greater than x, also when x is the capacity before the call *)
(* and when the bitmap was constructed with 0 bits.                        *)
(***************************************************************************)
GrowthInvariant ==
  last.op = "set" =>
    /\ this_contains(H, last.this, last.x)
    /\ Capacity(H, last.this) > last.x

(***************************************************************************)
(* C2  R = this.and(other) has the capacity of this and contains x iff     *)
(* this and other both contain x; its words beyond the store of other are  *)
(* zero, and its count is at most the count of either operand.             *)
(***************************************************************************)
AndIsIntersection ==
  [][last'.op = "and" =>
       LET this == last'.this
           other == last'.other
       IN /\ Capacity(H', "R") = Capacity(H, this)
          /\ Contained(H', "R") = Contained(H, this) \cap Contained(H, other)
          /\ \A i \in 0..(Len(Bits(H', "R")) - 1) :
               i >= Len(Bits(H, other)) => At(Bits(H', "R"), i) = 0
          /\ count(H', "R") <= Min(count(H, this), count(H, other))]_vars

(***************************************************************************)
(* C3  R = this.or(other) and R = this.xor(other) have the larger of the   *)
(* two capacities; or contains x iff this or other contains x, xor iff     *)
(* exactly one of them does.  No bit of a larger other is dropped.         *)
(***************************************************************************)
OrXorAreUnions ==
  [][last'.op \in {"or", "xor"} =>
       LET this == last'.this
           other == last'.other
       IN /\ Capacity(H', "R") = Max(Capacity(H, this), Capacity(H, other))
          /\ last'.op = "or" =>
               Contained(H', "R") = Contained(H, this) \cup Contained(H, other)
          /\ last'.op = "xor" =>
               Contained(H', "R") =
                 (Contained(H, this) \cup Contained(H, other))
                   \ (Contained(H, this) \cap Contained(H, other))]_vars

(***************************************************************************)
(* C4  R = this.andNot(other) has the capacity of this and contains x iff  *)
(* this contains x and other does not; the words of this beyond the store  *)
(* of other are copied unchanged.                                          *)
(***************************************************************************)
AndNotIsDifference ==
  [][last'.op = "andNot" =>
       LET this == last'.this
           other == last'.other
       IN /\ Capacity(H', "R") = Capacity(H, this)
          /\ Contained(H', "R") = Contained(H, this) \ Contained(H, other)
          /\ \A i \in 0..(Len(Bits(H', "R")) - 1) :
               i >= Len(Bits(H, other)) =>
                 At(Bits(H', "R"), i) = At(Bits(H, this), i)]_vars

\* A.andNot(B) was computed for an A that is longer than B, holds a bit
\* beyond the capacity of B and shares a bit with B.
AndNotWitness ==
  /\ last.op = "andNot"
  /\ last.other = "B"
  /\ Capacity(H, "A") > Capacity(H, "B")
  /\ \E x \in Contained(H, "R") : x >= Capacity(H, "B")
  /\ Contained(H, "A") \cap Contained(H, "B") # {}

(***************************************************************************)
(* C5  this.xor(other) equals this.or(other).andNot(this.and(other)): the  *)
(* same capacity and the same indices.                                     *)
(***************************************************************************)
XorLaw ==
  last.op = "xor" =>
    LET composed == Pair(StoreOfOr(H, last.this, last.other),
                         StoreOfAnd(H, last.this, last.other))
        law == andNot(composed, "A", "B", "R")
    IN /\ Capacity(law, "R") = Capacity(H, "R")
       /\ Contained(law, "R") = Contained(H, "R")

(***************************************************************************)
(* C6  No aliasing and no operand mutation: no two Bitmaps share a store;  *)
(* and, or, xor, andNot and clone leave A and B as they were, and a clone  *)
(* has the bits and capacity of its original; a later set, remove, clear,  *)
(* filter or grow of one of R, A, B changes neither of the other two.      *)
(***************************************************************************)
NoSharedStore ==
  \A o \in Objects, p \in Objects :
    (o # p /\ bits[o] # null /\ bits[p] # null) => bits[o] # bits[p]

Frame ==
  LET op == last'.op
      this == last'.this
  IN /\ op \in {"and", "or", "xor", "andNot", "clone"} =>
          \A o \in Receivers : Bits(H', o) = Bits(H, o)
     /\ op = "clone" => Bits(H', "R") = Bits(H, this)
     /\ op \in {"set", "remove", "clear", "filter", "grow"} =>
          \A o \in Objects \ {this} :
            bits[o] # null => bits'[o] # null /\ Bits(H', o) = Bits(H, o)

Ownership == [][NoSharedStore' /\ Frame]_vars

\* A Bitmap was returned and then given a bit that its operand A lacks.
OwnershipWitness ==
  /\ last.op = "set"
  /\ last.this = "R"
  /\ last.x \in Contained(H, "R")
  /\ last.x \notin Contained(H, "A")
  /\ Contained(H, "A") # {}

(***************************************************************************)
(* C7  Ordering: range with a visitor that never returns false, and the    *)
(* generator, each produce the contained indices, strictly increasing and  *)
(* without duplicates (nothing for an empty bitmap); the two sequences are  *)
(* the same, and a second iteration of the unchanged bitmap repeats it.    *)
(* The generator is taken on a bitmap that no call changes while it runs.  *)
(***************************************************************************)
StrictlyIncreasing(seq) ==
  \A k \in 1..Len(seq), m \in 1..Len(seq) : k < m => seq[k] < seq[m]

Elements(seq) == {seq[k] : k \in 1..Len(seq)}

NeverFalse(fn) == \A x \in DOMAIN fn : fn[x] # false

\* The generator has come to its end, and its bitmap was not changed
\* while it ran.
Iterated == gen.at = "done" /\ gen.pure

TraversalOrder ==
  /\ (last.op = "range" /\ NeverFalse(last.fn)) =>
       /\ StrictlyIncreasing(out)
       /\ Elements(out) = Contained(H, last.this)
       /\ out = iterator(H, last.this)
  /\ Iterated =>
       /\ StrictlyIncreasing(gen.yielded)
       /\ Elements(gen.yielded) = Contained(H, gen.this)
       /\ gen.yielded = range(H, gen.this, Visitor(-1, "undefined"))
       /\ gen.yielded = iterator(H, gen.this)

\* The generator came to its end over a bitmap with bits in two words, two
\* of them in one word.
TraversalWitness ==
  /\ Iterated
  /\ last.op = "next"
  /\ Len(gen.yielded) >= 3
  /\ \E k \in 1..(Len(gen.yielded) - 1) : gen.yielded[k] \div 8 = gen.yielded[k + 1] \div 8
  /\ \E k \in 1..(Len(gen.yielded) - 1) : gen.yielded[k] \div 8 < gen.yielded[k + 1] \div 8

(***************************************************************************)
(* C8  range early exit: once the visitor returns false, it is called on   *)
(* no further index, neither of the same word nor of a later one; if it    *)
(* returns true or nothing on every call, every set index is visited.      *)
(***************************************************************************)
RangeEarlyExit ==
  last.op = "range" =>
    /\ \A k \in 1..Len(out) : last.fn[out[k]] = false => k = Len(out)
    /\ (\A k \in 1..Len(out) : last.fn[out[k]] # false) =>
         Elements(out) = Contained(H, last.this)

\* The visitor returned false at an index after which the bitmap holds a
\* bit in the same word and a bit in a later word.
RangeEarlyExitWitness ==
  /\ last.op = "range"
  /\ Len(out) >= 1
  /\ last.fn[out[Len(out)]] = false
  /\ \E x \in Contained(H, last.this) :
       x > out[Len(out)] /\ x \div 8 = out[Len(out)] \div 8
  /\ \E x \in Contained(H, last.this) : x \div 8 > out[Len(out)] \div 8

(***************************************************************************)
(* C9  filter with a predicate that does not touch the bitmap: the         *)
(* predicate is called once for each index contained before the call, in   *)
(* ascending order, and for no other index; afterwards exactly the indices *)
(* that were contained and for which it returned true are contained; the   *)
(* capacity is unchanged.                                                  *)
(***************************************************************************)
FilterKeeps ==
  [][last'.op = "filter" =>
       LET this == last'.this
           before == Contained(H, this)
       IN /\ StrictlyIncreasing(out')
          /\ Elements(out') = before
          /\ Contained(H', this) = {x \in before : last'.fn[x] = true}
          /\ Capacity(H', this) = Capacity(H, this)]_vars

\* filter was called on three bits or more, removed one and kept one.
FilterWitness ==
  /\ last.op = "filter"
  /\ Len(out) >= 3
  /\ \E k \in 1..Len(out) : last.fn[out[k]] = false
  /\ \E k \in 1..Len(out) : last.fn[out[k]] = true
  /\ Contained(H, last.this) # {}

(***************************************************************************)
(* C10  set(x) and remove(x) are insert and delete on the set of contained *)
(* indices: after set(x) it is the set before with x, after remove(x) the  *)
(* set before without x; remove(x) of an index that is not contained, also *)
(* one beyond the capacity, leaves bits and capacity as they were.         *)
(***************************************************************************)
SetRemoveAreInsertDelete ==
  [][LET this == last'.this
         x == last'.x
     IN /\ last'.op = "set" =>
             Contained(H', this) = Contained(H, this) \cup {x}
        /\ last'.op = "remove" =>
             /\ Contained(H', this) = Contained(H, this) \ {x}
             /\ x \notin Contained(H, this) => Bits(H', this) = Bits(H, this)]_vars

(***************************************************************************)
(* C11  Round trip: for a bitmap b of any capacity, 0 included,            *)
(* Bitmap.fromString(b.toString()) returns a bitmap with the capacity and  *)
(* the contained indices of b, whose toString() equals b.toString().       *)
(***************************************************************************)
RoundTrip ==
  (last.op = "fromString" /\ last.fn = toString(H, "A")) =>
    /\ out = Returned
    /\ bits["R"] # null
    /\ Capacity(H, "R") = Capacity(H, "A")
    /\ Contained(H, "R") = Contained(H, "A")
    /\ toString(H, "R") = toString(H, "A")

\* A bitmap of two words, with bits in both, was printed and parsed back.
RoundTripWitness ==
  /\ last.op = "fromString"
  /\ last.fn = toString(H, "A")
  /\ Capacity(H, "A") = 16
  /\ \E x \in Contained(H, "A"), y \in Contained(H, "A") : x < 8 /\ y >= 8
  /\ Contained(H, "R") = Contained(H, "A")

(***************************************************************************)
(* C12  toString() returns the words in store order, each as 8 characters  *)
(* '0'/'1', highest bit first, with no separator: it has capacity          *)
(* characters, the character at position 8i + k (from 0) being '1' exactly *)
(* if index 8i + 7 - k is contained; for a 16-bit bitmap with every even   *)
(* index set it is "0101010101010101".                                     *)
(***************************************************************************)
ToStringUngrouped ==
  last.op = "toString" =>
    /\ Len(out) = Capacity(H, last.this)
    /\ \A i \in 0..(Len(Bits(H, last.this)) - 1), k \in 0..7 :
         8 * i + k + 1 <= Len(out) =>
           (out[8 * i + k + 1] = "1" <=> 8 * i + 7 - k \in Contained(H, last.this))
    /\ (Capacity(H, last.this) = 16
          /\ Contained(H, last.this) = {x \in 0..15 : x % 2 = 0}) =>
         out = <<"0", "1", "0", "1", "0", "1", "0", "1",
                 "0", "1", "0", "1", "0", "1", "0", "1">>

(***************************************************************************)
(* C13  fromString(s), for s whose length without whitespace is a multiple *)
(* of 8 but which holds a character other than '0', '1' and whitespace,    *)
(* fails with an error and returns no bitmap.                              *)
(***************************************************************************)
StripWhitespace(s) == SelectSeq(s, LAMBDA c : c \notin {" ", "\t", "\n"})

BinaryDigitsOnly(s) == \A k \in 1..Len(s) : s[k] \in {"0", "1"}

FromStringRejectsOtherCharacters ==
  (/\ last.op = "fromString"
   /\ Len(StripWhitespace(last.fn)) % 8 = 0
   /\ ~BinaryDigitsOnly(StripWhitespace(last.fn))) =>
    /\ out # Returned
    /\ bits["R"] = null

(***************************************************************************)
(* C14  fromString(s) strips all whitespace first.  If the length of what  *)
(* is left is not a multiple of 8, the call fails with an error and        *)
(* returns no bitmap.  If it is, and all characters are '0' or '1', the    *)
(* call returns a bitmap whose capacity is that length, and in which index *)
(* 8i + j is contained exactly if the character at position 8i + (7 - j)   *)
(* is '1'.                                                                 *)
(***************************************************************************)
FromStringDecodes ==
  last.op = "fromString" =>
    LET cleaned == StripWhitespace(last.fn)
    IN /\ Len(cleaned) % 8 # 0 => (out # Returned /\ bits["R"] = null)
       /\ (Len(cleaned) % 8 = 0 /\ BinaryDigitsOnly(cleaned)) =>
            /\ out = Returned
            /\ bits["R"] # null
            /\ Capacity(H, "R") = Len(cleaned)
            /\ \A i \in 0..((Len(cleaned) \div 8) - 1), j \in 0..7 :
                 (8 * i + j \in Contained(H, "R")) <=> cleaned[8 * i + (7 - j) + 1] = "1"
            /\ Contained(H, "R") \subseteq 0..(Len(cleaned) - 1)

\* A string of two groups with whitespace, the second split in two halves
\* of which at least one group holds a '1', was decoded.
FromStringWitness ==
  /\ last.op = "fromString"
  /\ out = Returned
  /\ Len(last.fn) > Len(StripWhitespace(last.fn))
  /\ Len(StripWhitespace(last.fn)) = 16
  /\ Contained(H, "R") # {}
  /\ \E x \in Contained(H, "R") : x % 8 \notin {0, 7}

(***************************************************************************)
(* C15  A call of set(x), remove(x), contains(x) or grow(x) with x < 0 is  *)
(* rejected with an error, and leaves bits and capacity as they were.      *)
(***************************************************************************)
IsThrown(o) == Len(o) = 2 /\ o[1] = "throw"

NegativeIndexRejected ==
  [][(last'.op \in {"set", "remove", "contains", "grow"} /\ last'.x < 0) =>
       /\ IsThrown(out')
       /\ Bits(H', last'.this) = Bits(H, last'.this)]_vars

(***************************************************************************)
(* C16  Construction: new Bitmap(n), n >= 0, creates a bitmap with no bit  *)
(* set and max(1, ceil(n / 8)) words, so new Bitmap(0) has capacity 8;     *)
(* new Bitmap() has capacity 32.                                           *)
(***************************************************************************)
Construction ==
  last.op = "new" =>
    LET n == IF last.x = undefined THEN 32 ELSE last.x
        store == Bits(H, last.this)
    IN /\ Len(store) = Max(1, (n + 7) \div 8)
       /\ \A i \in 1..Len(store) : store[i] = 0
       /\ last.x = 0 => Capacity(H, last.this) = 8
       /\ last.x = undefined => Capacity(H, last.this) = 32

(***************************************************************************)
(* C17  Capacity invariant: through set, remove, filter, clear, grow and   *)
(* the queries, the capacity of an instance is a multiple of 8 and never   *)
(* gets smaller; remove, filter, clear, every query, and grow(x) with      *)
(* x < capacity leave it unchanged; after clear() no index is contained.   *)
(***************************************************************************)
Queries == {"contains", "count", "min", "max", "minZero", "maxZero", "range"}

CapacityInvariant ==
  [][/\ Capacity(H', "A") % 8 = 0
     /\ Capacity(H', "A") >= Capacity(H, "A")
     /\ last'.op \in {"remove", "filter", "clear"} \cup Queries =>
          Capacity(H', "A") = Capacity(H, "A")
     /\ (last'.op = "grow" /\ last'.x < Capacity(H, "A")) =>
          Capacity(H', "A") = Capacity(H, "A")
     /\ last'.op = "clear" =>
          /\ Contained(H', "A") = {}
          /\ \A i \in 1..Len(Bits(H', "A")) : Bits(H', "A")[i] = 0]_vars

\* A bitmap of more than one word that held bits in two words was cleared.
CapacityWitness ==
  /\ last.op = "clear"
  /\ Capacity(H, "A") > 8
  /\ Contained(H, "A") = {}

(***************************************************************************)
(* C18  Boundary queries: min() is the smallest contained index, -1 if     *)
(* there is none; max() the largest, -1 if there is none; minZero() the    *)
(* smallest index below the capacity that is not contained, the capacity   *)
(* if there is none; maxZero() the largest such index, -1 if there is      *)
(* none.  None of the four changes the bitmap.                             *)
(***************************************************************************)
Least(S) == CHOOSE x \in S : \A y \in S : x <= y

Greatest(S) == CHOOSE x \in S : \A y \in S : x >= y

BoundaryQueries ==
  [][last'.op \in {"min", "max", "minZero", "maxZero"} =>
       LET this == last'.this
           ones == Contained(H, this)
           zeros == (0..(Capacity(H, this) - 1)) \ ones
       IN /\ Bits(H', this) = Bits(H, this)
          /\ last'.op = "min" =>
               out' = <<IF ones = {} THEN -1 ELSE Least(ones)>>
          /\ last'.op = "max" =>
               out' = <<IF ones = {} THEN -1 ELSE Greatest(ones)>>
          /\ last'.op = "minZero" =>
               out' = <<IF zeros = {} THEN Capacity(H, this) ELSE Least(zeros)>>
          /\ last'.op = "maxZero" =>
               out' = <<IF zeros = {} THEN -1 ELSE Greatest(zeros)>>]_vars

\* minZero was asked of a bitmap of two words with every bit set.
BoundaryWitness ==
  /\ last.op = "minZero"
  /\ Capacity(H, last.this) = 16
  /\ out = <<16>>
  /\ Contained(H, last.this) = 0..15

(***************************************************************************)
(* C19  count() returns the number of indices below the capacity for which *)
(* contains is true, 0 for a fresh or cleared bitmap; contains(x) is false *)
(* for every x at or beyond the capacity; neither changes the bitmap.      *)
(***************************************************************************)
CountAndContains ==
  [][last'.op \in {"count", "contains"} =>
       LET this == last'.this
       IN /\ Bits(H', this) = Bits(H, this)
          /\ last'.op = "count" =>
               out' = <<Cardinality({x \in 0..(Capacity(H, this) - 1) :
                                       this_contains(H, this, x)})>>
          /\ (last'.op = "contains" /\ last'.x >= Capacity(H, this)) =>
               out' = <<FALSE>>
          /\ \A x \in Universe : x >= Capacity(H', this) => ~this_contains(H', this, x)]_vars

\* count was asked of a bitmap with more bits than one word holds.
CountWitness ==
  /\ last.op = "count"
  /\ out[1] > 8
  /\ out[1] = Cardinality(Contained(H, last.this))

(***************************************************************************)
(* C20  Exact-fit growth: after grow(x), x >= 0, the capacity is the       *)
(* greater of the capacity before and 8 * (floor(x / 8) + 1), so it        *)
(* exceeds x; the contained indices are the same as before.                *)
(***************************************************************************)
ExactFitGrowth ==
  [][(last'.op = "grow" /\ last'.x >= 0) =>
       /\ Capacity(H', last'.this) =
            Max(Capacity(H, last'.this), 8 * ((last'.x \div 8) + 1))
       /\ Capacity(H', last'.this) > last'.x
       /\ Contained(H', last'.this) = Contained(H, last'.this)]_vars

(***************************************************************************)
(* C21  filter with a predicate that sets a bit of the bitmap: if the      *)
(* predicate, when called, sets an index that was not contained when       *)
(* filter was called, filter never calls the predicate on that index and   *)
(* never removes it; the predicate is called only on indices contained     *)
(* when filter was called.                                                 *)
(***************************************************************************)
FilterIgnoresAddedBits ==
  [][(/\ last'.op = "filter"
      /\ last'.x \notin Contained(H, last'.this)
      /\ out' # << >>) =>
       /\ last'.x \notin Elements(out')
       /\ last'.x \in Contained(H', last'.this)
       /\ Elements(out') \subseteq Contained(H, last'.this)]_vars

====
